---- MODULE Spec2Model ----
(***************************************************************************)
(* Verification model of primevideo-to-simkl-csv-exporter:                 *)
(*   - the metadata clients (Simkl, TMDB, TVDB): request protocol, TVDB    *)
(*     token handling, response decoding and MetadataResult conversions;   *)
(*   - the scraping session: manual_login, automated_login with           *)
(*     is_logged_in, and the BrowserController connection life cycle;      *)
(*   - the resolution engine (priority order, identifier merge);           *)
(*   - generate_config_if_needed of the build script.                      *)
(* Strings are sequences of one-character strings; Option<T> is a sequence *)
(* of length 0 (None) or 1 (Some(x)).                                       *)
(***************************************************************************)
EXTENDS Integers, Sequences, FiniteSets, TLC

VARIABLES
    access_token,   \* TvdbClient.access_token of the shared provider instance
    pc,             \* per caller: position in the running call
    prov,           \* per caller: provider the call goes to
    op,             \* per caller: "search" or "get_details"
    this_token,     \* per caller: access_token of the call's `this` copy
    nData,          \* per caller: data requests sent by the running call
    nLogin,         \* per caller: login requests sent by the running call
    n401,           \* per caller: 401 answers received by the running call
    status,         \* per caller: status of the last data response (0: none)
    loginStatus,    \* per caller: status of the last login response (0: none)
    result,         \* per caller: what the call returned
    afterAuth,      \* per caller: the call began after a successful login
    authOk,         \* some call of the instance has authenticated successfully
    seen401,        \* some data request of the instance was answered 401
    recent,         \* per metered provider: ages of the requests of the last window
    conv_kind,      \* conversion harness: which response handler ran
    conv_in,        \* conversion harness: the response body it was given
    conv_out,       \* conversion harness: what the handler returned
    conv_req,       \* conversion harness: arguments of the search / get_details call
    conv_sent,      \* conversion harness: the request the call sent
    m_pc,           \* manual_login: position
    page_url,       \* browser: URL of the current page
    m_result,       \* manual_login: returned value
    a_pc,           \* automated_login: position
    a_result,       \* automated_login: returned value
    a_trace,        \* automated_login: page interactions performed, in order
    a_email,        \* automated_login: the email it was called with
    page_els,       \* browser: simple selectors that match an element of the page
    b_client,       \* BrowserController.client (Option of a connection)
    b_open,         \* connections open at the WebDriver server
    b_authed,       \* connections whose browser session is logged in
    b_next,         \* the connection the next successful connect establishes
    b_op,           \* BrowserController: last operation called
    b_result,       \* BrowserController: what it returned
    b_prev,         \* BrowserController: client before the last operation
    b_attempts,     \* BrowserController: connection attempts of the last operation
    b_calls,        \* BrowserController: driver calls of the last operation, in order
    r_pc,           \* resolution engine: position
    r_order,        \* resolution engine: PriorityOrder of the enabled providers
    r_issued,       \* resolution engine: providers called so far (prefix of r_order)
    r_resp,         \* resolution engine: per provider, what its search returned
    r_ids,          \* resolution engine: MediaIds merged so far
    r_rank,         \* resolution engine: per identifier, rank of the provider it came from
    r_canon,        \* resolution engine: canonical candidate so far (Option)
    r_record,       \* resolution engine: the record produced (Option)
    r_completed,    \* resolution engine: providers in the order their calls completed
    r_scraped,      \* resolution engine: the scraped title being resolved
    fs_config,      \* per destination directory: content of config.json (Option)
    g_dir,          \* generate_config_if_needed: directory of the last call
    g_before,       \* generate_config_if_needed: config.json before the last call
    g_result        \* generate_config_if_needed: "returned" or "panic"

vars == <<access_token, pc, prov, op, this_token, nData, nLogin, n401, status,
          loginStatus, result, afterAuth, authOk, seen401, recent,
          conv_kind, conv_in, conv_out, conv_req, conv_sent, m_pc, page_url, m_result,
          a_pc, a_result, a_trace, a_email, page_els,
          b_client, b_open, b_authed, b_next, b_op, b_result, b_prev, b_attempts,
          b_calls,
          r_pc, r_order, r_issued, r_resp, r_ids, r_rank, r_canon, r_record,
          r_completed, r_scraped,
          fs_config, g_dir, g_before, g_result>>

clientVars == <<access_token, pc, prov, op, this_token, nData, nLogin, n401,
                status, loginStatus, result, afterAuth, authOk, seen401, recent>>
convVars == <<conv_kind, conv_in, conv_out, conv_req, conv_sent>>
loginVars == <<m_pc, page_url, m_result>>
autoVars == <<a_pc, a_result, a_trace, a_email, page_els>>
browserVars == <<b_client, b_open, b_authed, b_next, b_op, b_result, b_prev, b_attempts,
                 b_calls>>
engineVars == <<r_pc, r_order, r_issued, r_resp, r_ids, r_rank, r_canon, r_record,
                r_completed, r_scraped>>
configVars == <<fs_config, g_dir, g_before, g_result>>
restVars == <<autoVars, browserVars, engineVars, configVars>>

(***************************************************************************)
(* Bounds                                                                  *)
(***************************************************************************)
NumCallers == 2     \* concurrent callers of the provider instances
NumTokens == 1      \* distinct bearer tokens the TVDB server hands out
Max401 == 2         \* 401 answers the server gives within one call
MaxDateLen == 5     \* length of the generated date strings
MaxBurst == 3       \* requests remembered per rate window
Calls == 2          \* RateLimit.calls of the configuration
PerSeconds == 1     \* RateLimit.per_seconds of the configuration, in ticks

Callers == 1..NumCallers
Tokens == 1..NumTokens
Providers == {"Simkl", "TMDB", "TVDB"}
Ops == {"search", "get_details"}
Statuses == {200, 401, 500}

(***************************************************************************)
(* Strings and options                                                     *)
(***************************************************************************)
None == <<>>
Some(x) == <<x>>
IsNone(o) == Len(o) = 0
IsSome(o) == Len(o) = 1

\* Option::or
OptOr(a, b) == IF IsSome(a) THEN a ELSE b

\* str::contains
Contains(s, pat) ==
    \E i \in 0..(Len(s) - Len(pat)) : SubSeq(s, i + 1, i + Len(pat)) = pat

\* s.split(ch).next(): the part of s before the first ch (all of s without ch)
RECURSIVE SplitFirst(_, _)
SplitFirst(s, ch) ==
    IF s = <<>> THEN <<>>
    ELSE IF Head(s) = ch THEN <<>>
    ELSE <<Head(s)>> \o SplitFirst(Tail(s), ch)

DigitChars == <<"0", "1", "2", "3", "4", "5", "6", "7", "8", "9">>

RECURSIVE NatToString(_)
NatToString(n) ==
    IF n < 10 THEN <<DigitChars[n + 1]>>
    ELSE NatToString(n \div 10) \o <<DigitChars[(n % 10) + 1]>>

\* i32::to_string
IntToString(n) == IF n < 0 THEN <<"-">> \o NatToString(0 - n) ELSE NatToString(n)

RECURSIVE SeqsUpTo(_, _)
SeqsUpTo(S, n) ==
    IF n = 0 THEN {<<>>}
    ELSE LET shorter == SeqsUpTo(S, n - 1)
         IN  shorter \cup {Append(s, x) : s \in shorter, x \in S}


(***************************************************************************)
(* String literals of the sources                                          *)
(***************************************************************************)
StrTv == <<"t", "v">>
StrMovie == <<"m", "o", "v", "i", "e">>
StrPerson == <<"p", "e", "r", "s", "o", "n">>
StrInception == <<"I", "n", "c", "e", "p", "t", "i", "o", "n">>
StrBreakingBad == <<"B", "r", "e", "a", "k", "i", "n", "g", " ", "B", "a", "d">>
StrDate1999 == <<"1", "9", "9", "9", "-", "0", "3", "-", "3", "0">>
StrDate2008 == <<"2", "0", "0", "8", "-", "0", "1", "-", "2", "0">>
StrImdbId == <<"t", "t", "0", "9", "0", "3", "7", "4", "7">>
StrId12345 == <<"1", "2", "3", "4", "5">>

(***************************************************************************)
(* JSON values of a response body and their serde decoding                 *)
(***************************************************************************)
JAbsent == [k |-> "absent", s |-> <<>>, n |-> 0]     \* the key is missing
JNull == [k |-> "null", s |-> <<>>, n |-> 0]
JStr(x) == [k |-> "str", s |-> x, n |-> 0]
JInt(i) == [k |-> "int", s |-> <<>>, n |-> i]

\* a field of type String: the key must be present and hold a string
StringFieldOk(j) == j.k = "str"
\* a field of type Option<String>: a missing key or null is None
OptStringFieldOk(j) == j.k \in {"absent", "null", "str"}
OptStringField(j) == IF j.k = "str" THEN Some(j.s) ELSE None
\* a field of type i32
IntFieldOk(j) == j.k = "int"
\* a field of type Option<i32>
OptIntFieldOk(j) == j.k \in {"absent", "null", "int"}
OptIntField(j) == IF j.k = "int" THEN Some(j.n) ELSE None

\* MediaIds::default()
DefaultIds == [simkl |-> None, tvdb |-> None, tmdb |-> None, mal |-> None, imdb |-> None]


(***************************************************************************)
(* Conversions to MetadataResult                                           *)
(***************************************************************************)
\* variant: a missing date becomes an empty year (unwrap_or_default)
YearFromDateOrEmpty(date) ==
    Some(IF IsNone(date) THEN <<>> ELSE SplitFirst(date[1], "-"))

\* date.and_then(|d| d.split('-').next().map(|s| s.to_string()))
YearFromDate(date) ==
    IF IsNone(date) THEN None ELSE Some(SplitFirst(date[1], "-"))

\* #[derive(Deserialize)] struct TmdbItem
TmdbItemOk(j) ==
    /\ IntFieldOk(j.id)
    /\ StringFieldOk(j.title)
    /\ StringFieldOk(j.name)
    /\ OptStringFieldOk(j.release_date)
    /\ OptStringFieldOk(j.first_air_date)
    /\ OptStringFieldOk(j.media_type)

TmdbItem(j) ==
    [id |-> j.id.n, title |-> j.title.s, name |-> j.name.s,
     release_date |-> OptStringField(j.release_date),
     first_air_date |-> OptStringField(j.first_air_date),
     media_type |-> OptStringField(j.media_type)]

\* impl From<TmdbItem> for MetadataResult
FromTmdbItem(item) ==
    [ids |-> [DefaultIds EXCEPT !.tmdb = Some(IntToString(item.id))],
     title |-> IF item.title = <<>> THEN item.name ELSE item.title,
     year |-> YearFromDate(OptOr(item.release_date, item.first_air_date)),
     media_type |-> IF item.media_type = Some(StrTv) THEN "Tv" ELSE "Movie"]

\* #[derive(Deserialize)] struct TmdbDetailsResponse, TmdbExternalIds
TmdbDetailsOk(j) ==
    /\ IntFieldOk(j.id)
    /\ OptStringFieldOk(j.title)
    /\ OptStringFieldOk(j.name)
    /\ OptStringFieldOk(j.release_date)
    /\ OptStringFieldOk(j.first_air_date)
    /\ j.external_ids.k = "obj"
    /\ OptStringFieldOk(j.external_ids.imdb_id)
    /\ OptIntFieldOk(j.external_ids.tvdb_id)

TmdbDetailsResponse(j) ==
    [id |-> j.id.n,
     title |-> OptStringField(j.title), name |-> OptStringField(j.name),
     release_date |-> OptStringField(j.release_date),
     first_air_date |-> OptStringField(j.first_air_date),
     external_ids |-> [imdb_id |-> OptStringField(j.external_ids.imdb_id),
                       tvdb_id |-> OptIntField(j.external_ids.tvdb_id)]]

\* impl From<TmdbDetailsResponse> for MetadataResult
FromTmdbDetails(details) ==
    LET has_title == IsSome(details.title)
        title == OptOr(details.title, details.name)
    IN  [ids |-> [DefaultIds EXCEPT
                    !.tmdb = Some(IntToString(details.id)),
                    !.tvdb = IF IsSome(details.external_ids.tvdb_id)
                             THEN Some(IntToString(details.external_ids.tvdb_id[1]))
                             ELSE None],
         title |-> IF IsSome(title) THEN title[1] ELSE <<>>,
         year |-> YearFromDate(OptOr(details.release_date, details.first_air_date)),
         media_type |-> IF has_title THEN "Movie" ELSE "Tv"]

\* #[derive(Deserialize)] struct TvdbSearchItem
TvdbSearchItemOk(j) ==
    /\ IntFieldOk(j.id)
    /\ StringFieldOk(j.seriesName)
    /\ OptStringFieldOk(j.firstAired)

TvdbSearchItem(j) ==
    [id |-> j.id.n, series_name |-> j.seriesName.s,
     first_aired |-> OptStringField(j.firstAired)]

\* impl From<TvdbSearchItem> for MetadataResult
FromTvdbSearchItem(item) ==
    [ids |-> [DefaultIds EXCEPT !.tvdb = Some(IntToString(item.id))],
     title |-> item.series_name,
     year |-> YearFromDate(item.first_aired),
     media_type |-> "Tv"]

\* #[derive(Deserialize)] struct TvdbDetailsItem
TvdbDetailsItemOk(j) ==
    /\ IntFieldOk(j.id)
    /\ StringFieldOk(j.seriesName)
    /\ OptStringFieldOk(j.firstAired)
    /\ OptStringFieldOk(j.imdbId)

TvdbDetailsItem(j) ==
    [id |-> j.id.n, series_name |-> j.seriesName.s,
     first_aired |-> OptStringField(j.firstAired),
     imdb_id |-> OptStringField(j.imdbId)]

\* impl From<TvdbDetailsItem> for MetadataResult
FromTvdbDetailsItem(item) ==
    [ids |-> [DefaultIds EXCEPT !.tvdb = Some(IntToString(item.id)),
                                !.imdb = item.imdb_id],
     title |-> item.series_name,
     year |-> YearFromDate(item.first_aired),
     media_type |-> "Tv"]

\* #[derive(Deserialize)] struct SimklSearchItem / SimklDetailsResponse, SimklIds
SimklItemOk(j) ==
    /\ StringFieldOk(j.title)
    /\ OptStringFieldOk(j.year)
    /\ j.ids.k = "obj"
    /\ StringFieldOk(j.ids.simkl)
    /\ OptStringFieldOk(j.ids.imdb)
    /\ OptStringFieldOk(j.ids.tmdb)
    /\ OptStringFieldOk(j.ids.tvdb)

SimklItem(j) ==
    [title |-> j.title.s, year |-> OptStringField(j.year),
     ids |-> [simkl |-> j.ids.simkl.s,
              imdb |-> OptStringField(j.ids.imdb),
              tmdb |-> OptStringField(j.ids.tmdb),
              tvdb |-> OptStringField(j.ids.tvdb)]]

\* impl From<SimklSearchItem> for MetadataResult
FromSimklSearchItem(item) ==
    [ids |-> [DefaultIds EXCEPT !.simkl = Some(item.ids.simkl),
                                !.imdb = item.ids.imdb,
                                !.tmdb = item.ids.tmdb,
                                !.tvdb = item.ids.tvdb],
     title |-> item.title,
     year |-> item.year,
     media_type |-> "Movie"]

\* impl From<SimklDetailsResponse> for MetadataResult
FromSimklDetails(details) ==
    [ids |-> [DefaultIds EXCEPT !.simkl = Some(details.ids.simkl),
                                !.imdb = details.ids.imdb,
                                !.tmdb = details.ids.tmdb,
                                !.tvdb = details.ids.tvdb],
     title |-> details.title,
     year |-> details.year,
     media_type |-> "Movie"]

(***************************************************************************)
(* The success branch of the handlers: response.json() then the conversion *)
(* A body is [k |-> "obj" or "garbage", items |-> the JSON items it holds]  *)
(***************************************************************************)
Failed == [tag |-> "TransportError", items |-> <<>>]
Okay(items) == [tag |-> "Ok", items |-> items]

\* results.results.into_iter().map(|item| item.into()).collect()
TmdbSearchBody(body) ==
    IF body.k = "obj" /\ \A i \in 1..Len(body.items) : TmdbItemOk(body.items[i])
    THEN Okay([i \in 1..Len(body.items) |-> FromTmdbItem(TmdbItem(body.items[i]))])
    ELSE Failed

TmdbDetailsBody(body) ==
    IF body.k = "obj" /\ TmdbDetailsOk(body.items[1])
    THEN Okay(<<FromTmdbDetails(TmdbDetailsResponse(body.items[1]))>>)
    ELSE Failed

TvdbSearchBody(body) ==
    IF body.k = "obj" /\ \A i \in 1..Len(body.items) : TvdbSearchItemOk(body.items[i])
    THEN Okay([i \in 1..Len(body.items) |->
                  FromTvdbSearchItem(TvdbSearchItem(body.items[i]))])
    ELSE Failed

TvdbDetailsBody(body) ==
    IF body.k = "obj" /\ TvdbDetailsItemOk(body.items[1])
    THEN Okay(<<FromTvdbDetailsItem(TvdbDetailsItem(body.items[1]))>>)
    ELSE Failed

SimklSearchBody(body) ==
    IF body.k = "obj" /\ \A i \in 1..Len(body.items) : SimklItemOk(body.items[i])
    THEN Okay([i \in 1..Len(body.items) |->
                  FromSimklSearchItem(SimklItem(body.items[i]))])
    ELSE Failed

SimklDetailsBody(body) ==
    IF body.k = "obj" /\ SimklItemOk(body.items[1])
    THEN Okay(<<FromSimklDetails(SimklItem(body.items[1]))>>)
    ELSE Failed


(***************************************************************************)
(* Response bodies the providers may send                                  *)
(***************************************************************************)
GenDates == SeqsUpTo({"1", "-"}, MaxDateLen)
DateVals == {JAbsent, JNull} \cup {JStr(d) : d \in GenDates \cup {StrDate1999}}
SecondDateVals == {JAbsent, JStr(StrDate2008), JStr(<<>>)}
IdVals == {JInt(603), JInt(123), JInt(-7), JAbsent}
OptTextVals(t) == {JAbsent, JStr(<<>>), JStr(t)}

TmdbItemJsons ==
    [id : {JInt(603), JAbsent}, title : OptTextVals(StrInception),
     name : OptTextVals(StrBreakingBad),
     release_date : DateVals, first_air_date : SecondDateVals,
     media_type : {JAbsent, JStr(StrTv), JStr(StrMovie), JStr(StrPerson)}]

ExternalIdsJsons ==
    {[k |-> "absent", imdb_id |-> JAbsent, tvdb_id |-> JAbsent]} \cup
    [k : {"obj"}, imdb_id : {JAbsent, JStr(StrImdbId)}, tvdb_id : {JAbsent, JInt(12345)}]

TmdbDetailsJsons ==
    [id : {JInt(603), JAbsent}, title : OptTextVals(StrInception),
     name : OptTextVals(StrBreakingBad),
     release_date : DateVals, first_air_date : SecondDateVals,
     external_ids : ExternalIdsJsons]

TvdbSearchJsons ==
    [id : IdVals, seriesName : OptTextVals(StrBreakingBad), firstAired : DateVals]

TvdbDetailsJsons ==
    [id : {JInt(123), JAbsent}, seriesName : OptTextVals(StrBreakingBad),
     firstAired : DateVals, imdbId : {JAbsent, JNull, JStr(StrImdbId)}]

SimklIdsJsons ==
    {[k |-> "absent", simkl |-> JAbsent, imdb |-> JAbsent, tmdb |-> JAbsent,
      tvdb |-> JAbsent]} \cup
    [k : {"obj"}, simkl : {JAbsent, JStr(IntToString(999))},
     imdb : {JAbsent, JStr(StrImdbId)}, tmdb : {JAbsent, JStr(StrId12345)},
     tvdb : {JAbsent, JNull, JStr(IntToString(789))}]

SimklJsons ==
    [title : {JAbsent, JStr(StrInception)},
     year : {JAbsent, JNull, JStr(IntToString(2010)), JInt(1999)},
     ids : SimklIdsJsons]

\* the item of the documented TMDB example and of tests/api_integration_tests.rs
TmdbExampleJson ==
    [id |-> JInt(603), title |-> JStr(StrInception), name |-> JAbsent,
     release_date |-> JStr(StrDate1999), first_air_date |-> JAbsent,
     media_type |-> JAbsent]

\* the item of the documented TVDB example
TvdbExampleJson == [id |-> JInt(123), seriesName |-> JAbsent, firstAired |-> JNull]

\* the item of test_tmdb_tv_item_conversion
TmdbTestJson ==
    [id |-> JInt(456), title |-> JStr(<<>>), name |-> JStr(StrBreakingBad),
     release_date |-> JAbsent, first_air_date |-> JStr(StrDate2008),
     media_type |-> JStr(StrTv)]

\* the item of test_tvdb_search_item_conversion
TvdbTestJson ==
    [id |-> JInt(123), seriesName |-> JStr(StrBreakingBad),
     firstAired |-> JStr(StrDate2008)]

Garbage == [k |-> "garbage", items |-> <<>>]
ListBodies(items, samples) ==
    {Garbage, [k |-> "obj", items |-> <<>>]}
        \cup {[k |-> "obj", items |-> <<i>>] : i \in items}
        \cup {[k |-> "obj", items |-> <<i, j>>] : i \in samples, j \in samples}
ObjectBodies(items) == {Garbage} \cup {[k |-> "obj", items |-> <<i>>] : i \in items}

TmdbSearchBodies == ListBodies(TmdbItemJsons, {TmdbExampleJson, TmdbTestJson})
TmdbDetailsBodies == ObjectBodies(TmdbDetailsJsons)
TvdbSearchBodies == ListBodies(TvdbSearchJsons, {TvdbExampleJson, TvdbTestJson})
TvdbDetailsBodies == ObjectBodies(TvdbDetailsJsons)
SimklSearchBodies == ListBodies(SimklJsons, {})
SimklDetailsBodies == ObjectBodies(SimklJsons)

(***************************************************************************)
(* Conversion harness: one successful response is handled at a time        *)
(***************************************************************************)
\* the arguments of a call: search(title, media_type, year) and
\* get_details(id, media_type), with year None for get_details
MediaTypes == {"Movie", "Tv"}
SearchArgs == [what : {StrInception}, media_type : MediaTypes, year : {None, Some(2010)}]
DetailsArgs == [what : {StrId12345}, media_type : MediaTypes, year : {None}]
NoArgs == [what |-> <<>>, media_type |-> "Movie", year |-> None]
NoRequest == [base |-> <<>>, path |-> <<>>, query |-> <<>>]

StrTmdbBase == <<"h", "t", "t", "p", "s", ":", "/", "/", "a", "p", "i", ".", "t", "h", "e", "m", "o", "v", "i", "e", "d", "b", ".", "o", "r", "g", "/", "3">>
StrSimklBase == <<"h", "t", "t", "p", "s", ":", "/", "/", "a", "p", "i", ".", "s", "i", "m", "k", "l", ".", "c", "o", "m">>
StrTvdbBase == <<"h", "t", "t", "p", "s", ":", "/", "/", "a", "p", "i", ".", "t", "h", "e", "t", "v", "d", "b", ".", "c", "o", "m">>
StrSearch == <<"s", "e", "a", "r", "c", "h">>
StrSeries == <<"s", "e", "r", "i", "e", "s">>
StrShow == <<"s", "h", "o", "w">>
StrMovies == <<"m", "o", "v", "i", "e", "s">>
StrShows == <<"s", "h", "o", "w", "s">>
StrQuery == <<"q", "u", "e", "r", "y">>
StrIncludeAdult == <<"i", "n", "c", "l", "u", "d", "e", "_", "a", "d", "u", "l", "t">>
StrFalse == <<"f", "a", "l", "s", "e">>
StrYear == <<"y", "e", "a", "r">>
StrQ == <<"q">>
StrType == <<"t", "y", "p", "e">>
StrName == <<"n", "a", "m", "e">>
StrExtended == <<"e", "x", "t", "e", "n", "d", "e", "d">>
StrFull == <<"f", "u", "l", "l">>
StrAppendToResponse == <<"a", "p", "p", "e", "n", "d", "_", "t", "o", "_", "r", "e", "s", "p", "o", "n", "s", "e">>
StrExternalIds == <<"e", "x", "t", "e", "r", "n", "a", "l", "_", "i", "d", "s">>

\* if let Some(y) = year { query.push(("year", y.to_string())) }
YearParam(year) == IF IsSome(year) THEN <<<<StrYear, IntToString(year[1])>>>> ELSE <<>>

\* TmdbClient::search_internal: the request
TmdbSearchRequest(title, media_type, year) ==
    [base |-> StrTmdbBase,
     path |-> <<StrSearch, IF media_type = "Movie" THEN StrMovie ELSE StrTv>>,
     query |-> <<<<StrQuery, title>>, <<StrIncludeAdult, StrFalse>>>> \o YearParam(year)]

\* TmdbClient::get_details_internal: the request
TmdbDetailsRequest(id, media_type, year) ==
    [base |-> StrTmdbBase,
     path |-> <<IF media_type = "Movie" THEN StrMovie ELSE StrTv, id>>,
     query |-> <<<<StrAppendToResponse, StrExternalIds>>>>]

\* SimklClient::search_internal: the request
SimklSearchRequest(title, media_type, year) ==
    [base |-> StrSimklBase,
     path |-> <<StrSearch>>,
     query |-> <<<<StrQ, title>>,
                 <<StrType, IF media_type = "Movie" THEN StrMovie ELSE StrShow>>>>
               \o YearParam(year)]

\* SimklClient::get_details_internal: the request
SimklDetailsRequest(id, media_type, year) ==
    [base |-> StrSimklBase,
     path |-> <<IF media_type = "Movie" THEN StrMovies ELSE StrShows, id>>,
     query |-> <<<<StrExtended, StrFull>>>>]

TvdbSearchRequestWithYear(title, media_type, year) ==
    [base |-> StrTvdbBase,
     path |-> <<StrSearch, StrSeries>>,
     query |-> <<<<StrName, title>>>> \o YearParam(year)]

\* TvdbClient::search (the year is dropped) and search_internal: the request
TvdbSearchRequest(title, media_type, year) ==
    [base |-> StrTvdbBase,
     path |-> <<StrSearch, StrSeries>>,
     query |-> <<<<StrName, title>>>>]

\* TvdbClient::get_details_internal: the request
TvdbDetailsRequest(id, media_type, year) ==
    [base |-> StrTvdbBase,
     path |-> <<StrSeries, id>>,
     query |-> <<>>]

InitConv ==
    /\ conv_kind = "none"
    /\ conv_in = Garbage
    /\ conv_out = Failed
    /\ conv_req = NoArgs
    /\ conv_sent = NoRequest

Handle(kind, body, out) ==
    /\ conv_kind' = kind
    /\ conv_in' = body
    /\ conv_out' = out
    /\ UNCHANGED <<clientVars, loginVars, restVars>>

\* the call is made with arguments a and sends its request
Call(a, request) ==
    /\ conv_req' = a
    /\ conv_sent' = request

TmdbSearchSuccess ==
    /\ conv_kind = "none"
    /\ \E a \in SearchArgs : Call(a, TmdbSearchRequest(a.what, a.media_type, a.year))
    /\ \E b \in TmdbSearchBodies : Handle("tmdb_search", b, TmdbSearchBody(b))
TmdbDetailsSuccess ==
    /\ conv_kind = "none"
    /\ \E a \in DetailsArgs : Call(a, TmdbDetailsRequest(a.what, a.media_type, a.year))
    /\ \E b \in TmdbDetailsBodies : Handle("tmdb_details", b, TmdbDetailsBody(b))
TvdbSearchSuccess ==
    /\ conv_kind = "none"
    /\ \E a \in SearchArgs : Call(a, TvdbSearchRequest(a.what, a.media_type, a.year))
    /\ \E b \in TvdbSearchBodies : Handle("tvdb_search", b, TvdbSearchBody(b))
TvdbDetailsSuccess ==
    /\ conv_kind = "none"
    /\ \E a \in DetailsArgs : Call(a, TvdbDetailsRequest(a.what, a.media_type, a.year))
    /\ \E b \in TvdbDetailsBodies : Handle("tvdb_details", b, TvdbDetailsBody(b))
SimklSearchSuccess ==
    /\ conv_kind = "none"
    /\ \E a \in SearchArgs : Call(a, SimklSearchRequest(a.what, a.media_type, a.year))
    /\ \E b \in SimklSearchBodies : Handle("simkl_search", b, SimklSearchBody(b))
SimklDetailsSuccess ==
    /\ conv_kind = "none"
    /\ \E a \in DetailsArgs : Call(a, SimklDetailsRequest(a.what, a.media_type, a.year))
    /\ \E b \in SimklDetailsBodies : Handle("simkl_details", b, SimklDetailsBody(b))

\* the caller takes the returned value
ConvReturn ==
    /\ conv_kind # "none"
    /\ conv_kind' = "none"
    /\ conv_in' = Garbage
    /\ conv_out' = Failed
    /\ conv_req' = NoArgs
    /\ conv_sent' = NoRequest
    /\ UNCHANGED <<clientVars, loginVars, restVars>>

ConvNext ==
    \/ TmdbSearchSuccess
    \/ TmdbDetailsSuccess
    \/ TvdbSearchSuccess
    \/ TvdbDetailsSuccess
    \/ SimklSearchSuccess
    \/ SimklDetailsSuccess
    \/ ConvReturn


(***************************************************************************)
(* Metadata clients: the request protocol of search and get_details        *)
(***************************************************************************)
\* reqwest StatusCode::is_success
IsSuccess(s) == s \in 200..299

\* variant: every error status is taken for an expired token
IsAnyError(s) == s >= 400

\* response.status() == 401
IsUnauthorized(s) == s = 401

\* what the handler does with a data response: TVDB reauthenticates on 401
OnDataStatus(p, s) ==
    IF IsSuccess(s) THEN "ok"
    ELSE IF p = "TVDB" /\ IsUnauthorized(s) THEN "reauth"
    ELSE "error"

NeedsLoginNever(p, tok) == FALSE

\* if self.access_token.is_none() { self.authenticate().await?; }
NeedsLogin(p, tok) == p = "TVDB" /\ IsNone(tok)

\* variant: the status of the login response is not looked at
AuthenticateAnyStatus(tok, s, t, bodyOk) ==
    IF bodyOk THEN [err |-> "none", token |-> Some(t)]
    ELSE [err |-> "TransportError", token |-> tok]

\* TvdbClient::authenticate on the answer (status s, token t, body readable or not)
Authenticate(tok, s, t, bodyOk) ==
    IF IsSuccess(s)
    THEN IF bodyOk THEN [err |-> "none", token |-> Some(t)]
         ELSE [err |-> "TransportError", token |-> tok]
    ELSE [err |-> "AuthError", token |-> tok]

\* let mut this = unsafe { std::ptr::read(self) }: a bitwise copy of the client
ThisCopy(tok) == tok

\* std::mem::forget(this): the copy is leaked, *self keeps the token it had
AfterForget(selfTok, thisTok) == selfTok

\* the success branch of the handler of provider p, operation o, on a body
HandleBody(p, o, body) ==
    CASE p = "TMDB" /\ o = "search" -> TmdbSearchBody(body)
      [] p = "TMDB" /\ o = "get_details" -> TmdbDetailsBody(body)
      [] p = "TVDB" /\ o = "search" -> TvdbSearchBody(body)
      [] p = "TVDB" /\ o = "get_details" -> TvdbDetailsBody(body)
      [] p = "Simkl" /\ o = "search" -> SimklSearchBody(body)
      [] p = "Simkl" /\ o = "get_details" -> SimklDetailsBody(body)

\* bodies answered in the protocol model: unreadable, the documented example, a test's item
SampleBodies(p, o) ==
    CASE p = "TMDB" /\ o = "search" -> ListBodies({TmdbExampleJson, TmdbTestJson}, {})
      [] p = "TMDB" /\ o = "get_details" ->
            ObjectBodies({[id |-> JInt(456), title |-> JAbsent,
                           name |-> JStr(StrBreakingBad), release_date |-> JAbsent,
                           first_air_date |-> JStr(StrDate2008),
                           external_ids |-> [k |-> "obj", imdb_id |-> JStr(StrImdbId),
                                             tvdb_id |-> JInt(12345)]]})
      [] p = "TVDB" /\ o = "search" -> ListBodies({TvdbExampleJson, TvdbTestJson}, {})
      [] p = "TVDB" /\ o = "get_details" ->
            ObjectBodies({[id |-> JInt(123), seriesName |-> JStr(StrBreakingBad),
                           firstAired |-> JStr(StrDate2008), imdbId |-> JAbsent]})
      [] p = "Simkl" ->
            ObjectBodies({[title |-> JStr(StrInception), year |-> JAbsent,
                           ids |-> [k |-> "obj", simkl |-> JStr(IntToString(999)),
                                    imdb |-> JAbsent, tmdb |-> JAbsent,
                                    tvdb |-> JAbsent]]})

\* the request log of the rate window: a request is sent now (age 0)
Logged(q) == IF Len(q) >= MaxBurst THEN Append(Tail(q), 0) ELSE Append(q, 0)

\* the log after a request to provider p; only metered providers are logged
Sent(p) == [q \in DOMAIN recent |-> IF q = p THEN Logged(recent[q]) ELSE recent[q]]

\* one tick later: requests older than the window are forgotten
Aged(q) ==
    LET older == [i \in 1..Len(q) |-> q[i] + 1]
    IN  SelectSeq(older, LAMBDA a : a < PerSeconds)

InitClients(callers, metered) ==
    /\ access_token = None
    /\ pc = [c \in callers |-> "idle"]
    /\ prov = [c \in callers |-> "TVDB"]
    /\ op = [c \in callers |-> "search"]
    /\ this_token = [c \in callers |-> None]
    /\ nData = [c \in callers |-> 0]
    /\ nLogin = [c \in callers |-> 0]
    /\ n401 = [c \in callers |-> 0]
    /\ status = [c \in callers |-> 0]
    /\ loginStatus = [c \in callers |-> 0]
    /\ result = [c \in callers |-> "none"]
    /\ afterAuth = [c \in callers |-> FALSE]
    /\ authOk = FALSE
    /\ seen401 = FALSE
    /\ recent = [p \in metered |-> <<>>]

\* MetadataProvider::search / get_details up to the first request sent
Begin(c, p, o) ==
    /\ pc[c] = "idle"
    /\ prov' = [prov EXCEPT ![c] = p]
    /\ op' = [op EXCEPT ![c] = o]
    /\ this_token' = [this_token EXCEPT ![c] = IF p = "TVDB" THEN ThisCopy(access_token) ELSE None]
    /\ afterAuth' = [afterAuth EXCEPT ![c] = authOk]
    /\ n401' = [n401 EXCEPT ![c] = 0]
    /\ status' = [status EXCEPT ![c] = 0]
    /\ loginStatus' = [loginStatus EXCEPT ![c] = 0]
    /\ result' = [result EXCEPT ![c] = "none"]
    /\ IF NeedsLogin(p, this_token'[c])
       THEN /\ pc' = [pc EXCEPT ![c] = "auth_wait"]
            /\ nLogin' = [nLogin EXCEPT ![c] = 1]
            /\ nData' = [nData EXCEPT ![c] = 0]
       ELSE /\ pc' = [pc EXCEPT ![c] = "data_wait"]
            /\ nLogin' = [nLogin EXCEPT ![c] = 0]
            /\ nData' = [nData EXCEPT ![c] = 1]
    /\ recent' = Sent(p)
    /\ UNCHANGED <<access_token, authOk, seen401, convVars, loginVars, restVars>>

\* the login request is answered: authenticate returns, then the data request goes out
AuthResponse(c, s, t, bodyOk) ==
    /\ pc[c] = "auth_wait"
    /\ loginStatus' = [loginStatus EXCEPT ![c] = s]
    /\ LET a == Authenticate(this_token[c], s, t, bodyOk)
       IN  /\ this_token' = [this_token EXCEPT ![c] = a.token]
           /\ IF a.err = "none"
              THEN /\ authOk' = TRUE
                   /\ pc' = [pc EXCEPT ![c] = "data_wait"]
                   /\ nData' = [nData EXCEPT ![c] = @ + 1]
                   /\ recent' = Sent(prov[c])
                   /\ UNCHANGED result
              ELSE /\ pc' = [pc EXCEPT ![c] = "done"]
                   /\ result' = [result EXCEPT ![c] = a.err]
                   /\ UNCHANGED <<authOk, nData, recent>>
    /\ UNCHANGED <<access_token, prov, op, nLogin, n401, status, afterAuth, seen401,
                   convVars, loginVars, restVars>>

\* the data request is answered
DataResponse(c, s, body) ==
    /\ pc[c] = "data_wait"
    /\ IsUnauthorized(s) => n401[c] < Max401
    /\ body \in SampleBodies(prov[c], op[c])
    /\ status' = [status EXCEPT ![c] = s]
    /\ n401' = [n401 EXCEPT ![c] = IF IsUnauthorized(s) THEN @ + 1 ELSE @]
    /\ seen401' = (seen401 \/ (prov[c] = "TVDB" /\ IsUnauthorized(s)))
    /\ LET todo == OnDataStatus(prov[c], s)
       IN  CASE todo = "ok" ->
                  /\ pc' = [pc EXCEPT ![c] = "done"]
                  /\ result' = [result EXCEPT ![c] = HandleBody(prov[c], op[c], body).tag]
                  /\ UNCHANGED <<nLogin, recent>>
             [] todo = "reauth" ->
                  /\ pc' = [pc EXCEPT ![c] = "auth_wait"]
                  /\ nLogin' = [nLogin EXCEPT ![c] = @ + 1]
                  /\ recent' = Sent(prov[c])
                  /\ UNCHANGED result
             [] todo = "error" ->
                  /\ pc' = [pc EXCEPT ![c] = "done"]
                  /\ result' = [result EXCEPT ![c] = "MetadataError"]
                  /\ UNCHANGED <<nLogin, recent>>
    /\ UNCHANGED <<access_token, prov, op, this_token, nData, loginStatus, afterAuth,
                   authOk, convVars, loginVars, restVars>>

\* send().await? fails: the exchange does not complete
TransportFailure(c) ==
    /\ pc[c] \in {"auth_wait", "data_wait"}
    /\ pc' = [pc EXCEPT ![c] = "done"]
    /\ result' = [result EXCEPT ![c] = "TransportError"]
    /\ UNCHANGED <<access_token, prov, op, this_token, nData, nLogin, n401, status,
                   loginStatus, afterAuth, authOk, seen401, recent, convVars, loginVars, restVars>>

\* the call returns to its caller: std::mem::forget(this); result
Finish(c) ==
    /\ pc[c] = "done"
    /\ pc' = [pc EXCEPT ![c] = "idle"]
    /\ access_token' = IF prov[c] = "TVDB" THEN AfterForget(access_token, this_token[c])
                       ELSE access_token
    /\ this_token' = [this_token EXCEPT ![c] = None]
    /\ nData' = [nData EXCEPT ![c] = 0]
    /\ nLogin' = [nLogin EXCEPT ![c] = 0]
    /\ n401' = [n401 EXCEPT ![c] = 0]
    /\ status' = [status EXCEPT ![c] = 0]
    /\ loginStatus' = [loginStatus EXCEPT ![c] = 0]
    /\ result' = [result EXCEPT ![c] = "none"]
    /\ afterAuth' = [afterAuth EXCEPT ![c] = FALSE]
    /\ prov' = [prov EXCEPT ![c] = "TVDB"]
    /\ op' = [op EXCEPT ![c] = "search"]
    /\ UNCHANGED <<authOk, seen401, recent, convVars, loginVars, restVars>>

\* time passes
Tick ==
    /\ recent' = [p \in DOMAIN recent |-> Aged(recent[p])]
    /\ recent' # recent
    /\ UNCHANGED <<access_token, pc, prov, op, this_token, nData, nLogin, n401, status,
                   loginStatus, result, afterAuth, authOk, seen401, convVars, loginVars, restVars>>

ClientNext ==
    \/ \E c \in DOMAIN pc, p \in Providers, o \in Ops : Begin(c, p, o)
    \/ \E c \in DOMAIN pc, s \in Statuses, t \in Tokens, b \in BOOLEAN :
          AuthResponse(c, s, t, b)
    \/ \E c \in DOMAIN pc, s \in Statuses :
          \E body \in SampleBodies(prov[c], op[c]) : DataResponse(c, s, body)
    \/ \E c \in DOMAIN pc : TransportFailure(c)
    \/ \E c \in DOMAIN pc : Finish(c)

(***************************************************************************)
(* Scraping session: manual_login                                          *)
(* A URL is [host, path, query]; query is an Option                        *)
(***************************************************************************)
StrWatchHistory == <<"w", "a", "t", "c", "h", "-", "h", "i", "s", "t", "o", "r", "y">>
StrSignin == <<"s", "i", "g", "n", "i", "n">>
StrSlashLogin == <<"/", "l", "o", "g", "i", "n">>
StrSlashAuth == <<"/", "a", "u", "t", "h">>
StrScheme == <<"h", "t", "t", "p", "s", ":", "/", "/">>

Hosts == {<<"w", "w", "w", ".", "p", "r", "i", "m", "e", "v", "i", "d", "e", "o", ".", "c", "o", "m">>,
          <<"w", "w", "w", ".", "a", "m", "a", "z", "o", "n", ".", "c", "o", "m">>}
Paths == {<<"/", "s", "e", "t", "t", "i", "n", "g", "s", "/", "w", "a", "t", "c", "h", "-", "h", "i", "s", "t", "o", "r", "y">>,
          <<"/", "a", "p", "/", "s", "i", "g", "n", "i", "n">>,
          <<"/", "l", "o", "g", "i", "n">>,
          <<"/", "a", "u", "t", "h", "-", "p", "o", "r", "t", "a", "l">>,
          <<"/", "s", "t", "o", "r", "e", "f", "r", "o", "n", "t">>,
          <<"/", "s", "i", "g", "n", "i", "n", "/", "w", "a", "t", "c", "h", "-", "h", "i", "s", "t", "o", "r", "y">>}
Queries == {None,
            Some(<<"r", "e", "f", "=", "w", "a", "t", "c", "h", "-", "h", "i", "s", "t", "o", "r", "y">>),
            Some(<<"s", "t", "e", "p", "=", "s", "i", "g", "n", "i", "n">>)}
Urls == [host : Hosts, path : Paths, query : Queries]
BlankUrl == [host |-> <<>>, path |-> <<>>, query |-> None]

\* Url::to_string
UrlString(u) ==
    StrScheme \o u.host \o u.path \o
        (IF IsSome(u.query) THEN <<"?">> \o u.query[1] ELSE <<>>)

\* Url::path
UrlPath(u) == u.path

\* let is_on_watch_history = url_str.contains("watch-history")
IsOnWatchHistory(u) == Contains(UrlString(u), StrWatchHistory)

\* let is_on_login_page = url_path.contains("signin") || ...
IsOnLoginPage(u) ==
    \/ Contains(UrlPath(u), StrSignin)
    \/ Contains(UrlPath(u), StrSlashLogin)
    \/ Contains(UrlPath(u), StrSlashAuth)

\* the final URL check of manual_login: what it returns for the current URL
ManualVerify(u) ==
    IF ~IsOnWatchHistory(u)
    THEN IF IsOnLoginPage(u) THEN "AuthError" ELSE "AuthError"
    ELSE "Ok"

InitLogin ==
    /\ m_pc = "start"
    /\ page_url = BlankUrl
    /\ m_result = "none"

\* client.goto(".../settings/watch-history"): the site may redirect
ManualGoto(ok, u) ==
    /\ m_pc = "start"
    /\ IF ok
       THEN /\ m_pc' = "waiting"
            /\ page_url' = u
            /\ UNCHANGED m_result
       ELSE /\ m_pc' = "goto_failed"
            /\ m_result' = "BrowserError"
            /\ UNCHANGED page_url
    /\ UNCHANGED <<clientVars, convVars, restVars>>

\* the operator uses the browser while manual_login waits for Enter
OperatorNavigates(u) ==
    /\ m_pc = "waiting"
    /\ u # page_url
    /\ page_url' = u
    /\ UNCHANGED <<m_pc, m_result, clientVars, convVars, restVars>>

\* read_line returns, then current_url and the URL check
ManualConfirm(readOk, urlOk) ==
    /\ m_pc = "waiting"
    /\ IF ~readOk
       THEN m_pc' = "stdin_failed" /\ m_result' = "AuthError"
       ELSE IF ~urlOk
       THEN m_pc' = "url_failed" /\ m_result' = "BrowserError"
       ELSE m_pc' = "verified" /\ m_result' = ManualVerify(page_url)
    /\ UNCHANGED <<page_url, clientVars, convVars, restVars>>

LoginNext ==
    \/ \E ok \in BOOLEAN, u \in Urls : ManualGoto(ok, u)
    \/ \E u \in Urls : OperatorNavigates(u)
    \/ \E readOk \in BOOLEAN, urlOk \in BOOLEAN : ManualConfirm(readOk, urlOk)

(***************************************************************************)
(* Scraping session: automated_login and is_logged_in                      *)
(* A locator is the sequence of the simple selectors of its CSS group; the *)
(* page is the set of simple selectors that match one of its elements.     *)
(***************************************************************************)
StrAuth == <<"a", "u", "t", "h">>
StrEmail == <<"e", "m", "a", "i", "l">>
StrPassword == <<"p", "a", "s", "s", "w", "o", "r", "d">>

SelEmail == <<"i", "n", "p", "u", "t", "[", "n", "a", "m", "e", "=", "'", "e", "m", "a", "i", "l", "'", "]">>
SelApEmail == <<"i", "n", "p", "u", "t", "[", "n", "a", "m", "e", "=", "'", "a", "p", "_", "e", "m", "a", "i", "l", "'", "]">>
SelPassword == <<"i", "n", "p", "u", "t", "[", "n", "a", "m", "e", "=", "'", "p", "a", "s", "s", "w", "o", "r", "d", "'", "]">>
SelApPassword == <<"i", "n", "p", "u", "t", "[", "n", "a", "m", "e", "=", "'", "a", "p", "_", "p", "a", "s", "s", "w", "o", "r", "d", "'", "]">>
SelContinue == <<"#", "c", "o", "n", "t", "i", "n", "u", "e">>
SelSignInSubmit == <<"#", "s", "i", "g", "n", "I", "n", "S", "u", "b", "m", "i", "t">>
SelMfaOtpCode == <<"#", "a", "u", "t", "h", "-", "m", "f", "a", "-", "o", "t", "p", "c", "o", "d", "e">>
SelCvfInputCode == <<".", "c", "v", "f", "-", "w", "i", "d", "g", "e", "t", "-", "i", "n", "p", "u", "t", "-", "c", "o", "d", "e">>
SelWatchHistoryClass == <<".", "w", "a", "t", "c", "h", "-", "h", "i", "s", "t", "o", "r", "y">>
SelAccountMenuClass == <<".", "a", "c", "c", "o", "u", "n", "t", "-", "m", "e", "n", "u">>

EmailLocator == <<SelEmail, SelApEmail>>
PasswordLocator == <<SelPassword, SelApPassword>>
MfaLocator == <<SelMfaOtpCode, SelCvfInputCode>>

\* let page_content_checks = [...]
PageContentChecks ==
    << <<"[", "d", "a", "t", "a", "-", "t", "e", "s", "t", "i", "d", "=", "'", "w", "a", "t", "c", "h", "-", "h", "i", "s", "t", "o", "r", "y", "'", "]">>,
       SelWatchHistoryClass,
       <<"[", "d", "a", "t", "a", "-", "a", "u", "t", "o", "m", "a", "t", "i", "o", "n", "-", "i", "d", "=", "'", "w", "a", "t", "c", "h", "-", "h", "i", "s", "t", "o", "r", "y", "'", "]">>,
       <<"[", "d", "a", "t", "a", "-", "t", "e", "s", "t", "i", "d", "=", "'", "a", "c", "c", "o", "u", "n", "t", "-", "m", "e", "n", "u", "'", "]">>,
       SelAccountMenuClass,
       <<"[", "d", "a", "t", "a", "-", "a", "u", "t", "o", "m", "a", "t", "i", "o", "n", "-", "i", "d", "=", "'", "a", "c", "c", "o", "u", "n", "t", "-", "m", "e", "n", "u", "'", "]">>,
       <<"[", "d", "a", "t", "a", "-", "t", "e", "s", "t", "i", "d", "=", "'", "a", "v", "-", "n", "a", "v", "-", "m", "a", "i", "n", "'", "]">>,
       <<".", "a", "v", "-", "n", "a", "v", "-", "m", "a", "i", "n">>,
       SelEmail,
       SelPassword >>

\* what the page after the submitted form can show
PageElements == {SelWatchHistoryClass, SelAccountMenuClass, SelEmail, SelPassword,
                 SelMfaOtpCode}
PageContents == SUBSET PageElements

StrCoUk == <<".", "c", "o", ".", "u", "k">>
StrDe == <<".", "d", "e">>
StrIt == <<".", "i", "t">>
StrAmazonCoUk == <<"a", "m", "a", "z", "o", "n", ".", "c", "o", ".", "u", "k">>
StrAmazonDe == <<"a", "m", "a", "z", "o", "n", ".", "d", "e">>
StrAmazonIt == <<"a", "m", "a", "z", "o", "n", ".", "i", "t">>
StrAmazonCom == <<"a", "m", "a", "z", "o", "n", ".", "c", "o", "m">>
StrWww == <<"w", "w", "w", ".">>
StrApSignin == <<"/", "a", "p", "/", "s", "i", "g", "n", "i", "n">>

\* let domain = if email.contains(".co.uk") { .. } else if ..
RegionalDomain(email) ==
    IF Contains(email, StrCoUk) THEN StrAmazonCoUk
    ELSE IF Contains(email, StrDe) THEN StrAmazonDe
    ELSE IF Contains(email, StrIt) THEN StrAmazonIt
    ELSE StrAmazonCom

\* format!("https://www.{}/ap/signin", domain): the sign-in page that is opened
SigninUrl(domain) == [host |-> StrWww \o domain, path |-> StrApSignin, query |-> None]

\* emails automated_login is called with
Emails ==
    { <<"u", "s", "e", "r", "@", "e", "x", "a", "m", "p", "l", "e", ".", "c", "o", "m">>, <<"u", "s", "e", "r", "@", "e", "x", "a", "m", "p", "l", "e", ".", "c", "o", ".", "u", "k">>, <<"h", "a", "n", "s", "@", "w", "e", "b", ".", "d", "e">>, <<"a", "n", "n", "a", "@", "l", "i", "b", "e", "r", "o", ".", "i", "t">>,
      <<"j", "o", "h", "n", ".", "d", "e", "w", "e", "y", "@", "g", "m", "a", "i", "l", ".", "c", "o", "m">>, <<"m", "e", "@", "m", "a", "i", "l", ".", "i", "t", "a", "l", "i", "a", ".", "c", "o", "m">> }

\* client.find(Locator::Css(locator)) is Ok: an element matches the group
Find(els, locator) == \E i \in 1..Len(locator) : locator[i] \in els

\* let url_check = url_str.contains("watch-history") && !...("signin") && !...("auth")
UrlCheck(u) ==
    /\ Contains(UrlString(u), StrWatchHistory)
    /\ ~Contains(UrlString(u), StrSignin)
    /\ ~Contains(UrlString(u), StrAuth)

\* for selector in page_content_checks { ... }: FALSE is the early return Ok(false)
RECURSIVE ContentChecks(_, _)
ContentChecks(els, i) ==
    IF i > Len(PageContentChecks)
    THEN TRUE
    ELSE LET selector == PageContentChecks[i]
         IN  IF /\ Find(els, <<selector>>)
                /\ (Contains(selector, StrEmail) \/ Contains(selector, StrPassword))
             THEN FALSE
             ELSE ContentChecks(els, i + 1)

\* is_logged_in, once current_url has answered
IsLoggedIn(u, els) == IF ~UrlCheck(u) THEN FALSE ELSE ContentChecks(els, 1)

InitAuto ==
    /\ a_pc = "start"
    /\ a_result = "none"
    /\ a_trace = <<>>
    /\ a_email = <<>>
    /\ page_els = {}

AutoStepContinuing(from, to, name, ok) ==
    /\ a_pc = from
    /\ a_trace' = Append(a_trace, name)
    /\ a_pc' = to
    /\ IF ok THEN UNCHANGED a_result ELSE a_result' = "BrowserError"

\* one awaited page interaction of automated_login: `?` returns on failure
AutoStep(from, to, name, ok) ==
    /\ a_pc = from
    /\ a_trace' = Append(a_trace, name)
    /\ IF ok
       THEN a_pc' = to /\ UNCHANGED a_result
       ELSE a_pc' = "done" /\ a_result' = "BrowserError"

\* client.goto(&login_url), automated_login being called with `email`
AutoGoto(ok, email) ==
    /\ AutoStep("start", "at_signin", "goto", ok)
    /\ a_email' = email
    /\ page_url' = IF ok THEN SigninUrl(RegionalDomain(email)) ELSE page_url
    /\ UNCHANGED <<page_els, m_pc, m_result, clientVars, convVars,
                   browserVars, engineVars, configVars>>

\* fill_form_field(client, "input[name='email'], input[name='ap_email']", email)
AutoFillEmail(ok) ==
    /\ AutoStep("at_signin", "email_filled", "fill_email", ok)
    /\ UNCHANGED <<page_url, page_els, m_pc, m_result, clientVars, convVars,
                   a_email, browserVars, engineVars, configVars>>

\* click_element(client, "#continue")
AutoClickContinue(ok) ==
    /\ AutoStep("email_filled", "continued", "click_continue", ok)
    /\ UNCHANGED <<page_url, page_els, m_pc, m_result, clientVars, convVars,
                   a_email, browserVars, engineVars, configVars>>

\* fill_form_field(client, "input[name='password'], input[name='ap_password']", password)
AutoFillPassword(ok) ==
    /\ AutoStep("continued", "password_filled", "fill_password", ok)
    /\ UNCHANGED <<page_url, page_els, m_pc, m_result, clientVars, convVars,
                   a_email, browserVars, engineVars, configVars>>

\* click_element(client, "#signInSubmit"): the site answers with some page
AutoClickSubmit(ok) ==
    /\ AutoStep("password_filled", "submitted", "click_submit", ok)
    /\ IF ok
       THEN \E u \in Urls, els \in PageContents :
                page_url' = u /\ page_els' = els
       ELSE UNCHANGED <<page_url, page_els>>
    /\ UNCHANGED <<m_pc, m_result, clientVars, convVars,
                   a_email, browserVars, engineVars, configVars>>

AutoFindMfaSkipped ==
    /\ a_pc = "submitted"
    /\ a_trace' = Append(a_trace, "find_mfa")
    /\ a_pc' = "mfa_clear"
    /\ UNCHANGED <<a_result, page_url, page_els, m_pc, m_result, clientVars, convVars,
                   a_email, browserVars, engineVars, configVars>>

\* if let Ok(_element) = client.find(Locator::Css("#auth-mfa-otpcode, ...")).await
AutoFindMfa ==
    /\ a_pc = "submitted"
    /\ a_trace' = Append(a_trace, "find_mfa")
    /\ IF Find(page_els, MfaLocator)
       THEN a_pc' = "done" /\ a_result' = "AuthError"
       ELSE a_pc' = "mfa_clear" /\ UNCHANGED a_result
    /\ UNCHANGED <<page_url, page_els, m_pc, m_result, clientVars, convVars,
                   a_email, browserVars, engineVars, configVars>>

\* if !is_logged_in(client).await? { return Err(AuthError) }  Ok(())
AutoVerify(urlOk) ==
    /\ a_pc = "mfa_clear"
    /\ a_pc' = "done"
    /\ IF ~urlOk
       THEN /\ a_result' = "BrowserError"
            /\ a_trace' = Append(a_trace, "current_url")
       ELSE /\ a_result' = IF IsLoggedIn(page_url, page_els) THEN "Ok" ELSE "AuthError"
            /\ a_trace' = IF UrlCheck(page_url)
                          THEN a_trace \o <<"current_url", "find_content">>
                          ELSE Append(a_trace, "current_url")
    /\ UNCHANGED <<page_url, page_els, m_pc, m_result, clientVars, convVars,
                   a_email, browserVars, engineVars, configVars>>

AutoNext ==
    \/ \E ok \in BOOLEAN, email \in Emails : AutoGoto(ok, email)
    \/ \E ok \in BOOLEAN : AutoFillEmail(ok)
    \/ \E ok \in BOOLEAN : AutoClickContinue(ok)
    \/ \E ok \in BOOLEAN : AutoFillPassword(ok)
    \/ \E ok \in BOOLEAN : AutoClickSubmit(ok)
    \/ AutoFindMfa
    \/ \E urlOk \in BOOLEAN : AutoVerify(urlOk)

(***************************************************************************)
(* Scraping session: BrowserController                                     *)
(* A connection is a number; the controller state is                       *)
(* [client, open, authed, next, result, attempts, calls].                  *)
(***************************************************************************)
MaxConns == 3       \* connections the WebDriver server accepts in a run

InitBrowser ==
    /\ b_client = None
    /\ b_open = {}
    /\ b_authed = {}
    /\ b_next = 1
    /\ b_op = "new"
    /\ b_result = "none"
    /\ b_prev = None
    /\ b_attempts = 0
    /\ b_calls = <<>>

\* the controller and the driver as one value
Controller ==
    [client |-> b_client, open |-> b_open, authed |-> b_authed, next |-> b_next,
     result |-> "none", attempts |-> 0, calls |-> <<>>]

\* a call to the WebDriver server and whether it succeeded
DriverCall(name, ok) == [call |-> name, ok |-> ok]

StartRetrying(st, connectOk) ==
    [st EXCEPT !.client = Some(st.next),
               !.open = st.open \cup {st.next},
               !.next = st.next + 1,
               !.result = "Ok",
               !.attempts = IF connectOk THEN 1 ELSE 2]

\* BrowserController::start: one connect; `?` returns its error
StartOn(st, connectOk) ==
    IF connectOk
    THEN [st EXCEPT !.client = Some(st.next),
                    !.open = st.open \cup {st.next},
                    !.next = st.next + 1,
                    !.result = "Ok",
                    !.attempts = st.attempts + 1,
                    !.calls = Append(st.calls, DriverCall("connect", TRUE))]
    ELSE [st EXCEPT !.result = "BrowserError",
                    !.attempts = st.attempts + 1,
                    !.calls = Append(st.calls, DriverCall("connect", FALSE))]

ShutdownKeepsClientOnError(st, closeOk) ==
    IF IsSome(st.client)
    THEN IF closeOk
         THEN [st EXCEPT !.client = None,
                         !.open = st.open \ {st.client[1]},
                         !.authed = st.authed \ {st.client[1]},
                         !.result = "Ok",
                         !.calls = Append(st.calls, DriverCall("close", TRUE))]
         ELSE [st EXCEPT !.result = "BrowserError",
                         !.calls = Append(st.calls, DriverCall("close", FALSE))]
    ELSE [st EXCEPT !.result = "Ok"]

ShutdownKeepsOpen(st, closeOk) ==
    [st EXCEPT !.client = None, !.result = "Ok"]

\* BrowserController::shutdown: self.client.take(), then close
ShutdownOn(st, closeOk) ==
    IF IsSome(st.client)
    THEN IF closeOk
         THEN [st EXCEPT !.client = None,
                         !.open = st.open \ {st.client[1]},
                         !.authed = st.authed \ {st.client[1]},
                         !.result = "Ok",
                         !.calls = Append(st.calls, DriverCall("close", TRUE))]
         ELSE [st EXCEPT !.client = None,
                         !.result = "BrowserError",
                         !.calls = Append(st.calls, DriverCall("close", FALSE))]
    ELSE [st EXCEPT !.result = "Ok"]

RestartIgnoringClose(st, closeOk, connectOk) ==
    StartOn(ShutdownOn(st, closeOk), connectOk)

\* BrowserController::restart: self.shutdown().await?; self.start().await
RestartOn(st, closeOk, connectOk) ==
    LET down == ShutdownOn(st, closeOk)
    IN  IF down.result # "Ok" THEN down ELSE StartOn(down, connectOk)

\* the controller after an operation returned
Returned(name, st) ==
    /\ b_op' = name
    /\ b_prev' = b_client
    /\ b_client' = st.client
    /\ b_open' = st.open
    /\ b_authed' = st.authed
    /\ b_next' = st.next
    /\ b_result' = st.result
    /\ b_attempts' = st.attempts
    /\ b_calls' = st.calls
    /\ UNCHANGED <<clientVars, convVars, loginVars, autoVars, engineVars, configVars>>

BrowserStart(connectOk) ==
    /\ connectOk => b_next <= MaxConns
    /\ Returned("start", StartOn(Controller, connectOk))

BrowserShutdown(closeOk) ==
    /\ Returned("shutdown", ShutdownOn(Controller, closeOk))

BrowserRestart(closeOk, connectOk) ==
    /\ connectOk => b_next <= MaxConns
    /\ Returned("restart", RestartOn(Controller, closeOk, connectOk))

\* handle_login on controller.client(): Ok leaves the browser session logged in
BrowserHandleLogin(ok) ==
    /\ IsSome(b_client)
    /\ Returned("handle_login",
                [Controller EXCEPT !.authed = IF ok THEN @ \cup {b_client[1]} ELSE @,
                                   !.result = IF ok THEN "Ok" ELSE "AuthError"])

BrowserNext ==
    \/ \E connectOk \in BOOLEAN : BrowserStart(connectOk)
    \/ \E closeOk \in BOOLEAN : BrowserShutdown(closeOk)
    \/ \E closeOk \in BOOLEAN, connectOk \in BOOLEAN : BrowserRestart(closeOk, connectOk)
    \/ \E ok \in BOOLEAN : BrowserHandleLogin(ok)

(***************************************************************************)
(* Resolution engine: one scraped title resolved against the enabled       *)
(* providers in PriorityOrder. The provider calls are issued in priority   *)
(* order and complete in any order; precedence is applied when a response  *)
(* is merged. A response is [tag, items] as the clients return it.         *)
(***************************************************************************)
StrYear2010 == <<"2", "0", "1", "0">>
StrId999 == <<"9", "9", "9">>
StrId123 == <<"1", "2", "3">>

NotCalled == [tag |-> "NotCalled", items |-> <<>>]
InFlight == [tag |-> "InFlight", items |-> <<>>]
ErrorOutcome(tag) == [tag |-> tag, items |-> <<>>]

\* the fields of MediaIds
IdKeys == DOMAIN DefaultIds

HasReturned(out) == out.tag \notin {"NotCalled", "InFlight"}
HasResults(out) == out.tag = "Ok" /\ Len(out.items) >= 1
IsFailure(out) == out.tag \in {"TransportError", "MetadataError", "AuthError"}

\* PriorityOrder: the enabled providers, each once; <<>> is "none enabled"
PriorityOrders ==
    {o \in UNION {[1..n -> Providers] : n \in 0..Cardinality(Providers)} :
        \A i, j \in 1..Len(o) : o[i] = o[j] => i = j}

\* position of provider p in the order (1 is the highest priority)
Rank(order, p) == CHOOSE i \in 1..Len(order) : order[i] = p

\* what the scraper hands over
ScrapedTitles ==
    {[title |-> StrInception, media_type |-> "Movie"],
     [title |-> StrBreakingBad, media_type |-> "Tv"]}

\* results a provider can return for the query
EngineResults(p) ==
    CASE p = "Simkl" ->
           {[ids |-> [DefaultIds EXCEPT !.simkl = Some(StrId999), !.tmdb = Some(StrId12345)],
             title |-> StrInception, year |-> Some(StrYear2010), media_type |-> "Movie"],
            [ids |-> [DefaultIds EXCEPT !.simkl = Some(StrId999)],
             title |-> StrBreakingBad, year |-> None, media_type |-> "Movie"]}
      [] p = "TMDB" ->
           {[ids |-> [DefaultIds EXCEPT !.tmdb = Some(StrId123)],
             title |-> StrBreakingBad, year |-> Some(StrYear2010), media_type |-> "Movie"],
            [ids |-> [DefaultIds EXCEPT !.tmdb = Some(StrId123), !.imdb = Some(StrImdbId),
                                        !.tvdb = Some(StrId12345)],
             title |-> StrInception, year |-> None, media_type |-> "Tv"]}
      [] p = "TVDB" ->
           {[ids |-> [DefaultIds EXCEPT !.tvdb = Some(StrId123)],
             title |-> StrBreakingBad, year |-> None, media_type |-> "Tv"]}

\* what a provider's search can return to the engine
SearchOutcomes(p) ==
    {ErrorOutcome("TransportError"), ErrorOutcome("MetadataError")}
        \cup (IF p = "TVDB" THEN {ErrorOutcome("AuthError")} ELSE {})
        \cup {Okay(<<>>)}
        \cup {Okay(<<r>>) : r \in EngineResults(p)}

MergeIdsLastWins(ids, rank, new, r) ==
    [ids |-> [k \in IdKeys |-> IF IsSome(new[k]) THEN new[k] ELSE ids[k]],
     rank |-> [k \in IdKeys |-> IF IsSome(new[k]) THEN r ELSE rank[k]]]

\* merge the identifiers `new` of the provider of rank r: a non-absent
\* identifier is taken unless one of a higher-priority provider is there
MergeIds(ids, rank, new, r) ==
    LET take(k) == IsSome(new[k]) /\ (IsNone(ids[k]) \/ rank[k] > r)
    IN  [ids |-> [k \in IdKeys |-> IF take(k) THEN new[k] ELSE ids[k]],
         rank |-> [k \in IdKeys |-> IF take(k) THEN r ELSE rank[k]]]

CanonFirstCompleted(canon, out, r) ==
    IF HasResults(out) /\ IsNone(canon)
    THEN Some([rank |-> r, title |-> out.items[1].title, year |-> out.items[1].year,
               media_type |-> out.items[1].media_type])
    ELSE canon

\* the canonical candidate after the response of the provider of rank r:
\* the first result of the highest-priority provider that returned any
CanonStep(canon, out, r) ==
    IF HasResults(out) /\ (IsNone(canon) \/ canon[1].rank > r)
    THEN Some([rank |-> r, title |-> out.items[1].title, year |-> out.items[1].year,
               media_type |-> out.items[1].media_type])
    ELSE canon

\* the record of the title: canonical fields, or the scraped title when no
\* provider returned a result
ResolvedRecord(scraped, canon, ids) ==
    IF IsSome(canon)
    THEN [title |-> canon[1].title, year |-> canon[1].year,
          media_type |-> canon[1].media_type, ids |-> ids]
    ELSE [title |-> scraped.title, year |-> None,
          media_type |-> scraped.media_type, ids |-> ids]

\* the identifiers of all responses merged in priority order from rank i on
RECURSIVE MergeAll(_, _, _, _, _)
MergeAll(order, resp, ids, rank, i) ==
    IF i > Len(order)
    THEN ids
    ELSE LET out == resp[order[i]]
             m == IF HasResults(out)
                  THEN MergeIds(ids, rank, out.items[1].ids, i)
                  ELSE [ids |-> ids, rank |-> rank]
         IN  MergeAll(order, resp, m.ids, m.rank, i + 1)

InitEngine ==
    /\ r_pc = "idle"
    /\ r_order = <<>>
    /\ r_issued = 0
    /\ r_resp = [p \in Providers |-> NotCalled]
    /\ r_ids = DefaultIds
    /\ r_rank = [k \in IdKeys |-> 0]
    /\ r_canon = None
    /\ r_record = None
    /\ r_completed = <<>>
    /\ r_scraped = [title |-> StrInception, media_type |-> "Movie"]

\* resolution of one title begins; no provider enabled is a configuration error
EngineStart(order, scraped) ==
    /\ r_pc = "idle"
    /\ r_pc' = IF order = <<>> THEN "fatal" ELSE "querying"
    /\ r_order' = order
    /\ r_scraped' = scraped
    /\ UNCHANGED <<r_issued, r_resp, r_ids, r_rank, r_canon, r_record, r_completed>>
    /\ UNCHANGED <<clientVars, convVars, loginVars, autoVars, browserVars, configVars>>

\* search is called on the next provider in priority order
EngineCall ==
    /\ r_pc = "querying"
    /\ r_issued < Len(r_order)
    /\ r_issued' = r_issued + 1
    /\ r_resp' = [r_resp EXCEPT ![r_order[r_issued + 1]] = InFlight]
    /\ UNCHANGED <<r_pc, r_order, r_ids, r_rank, r_canon, r_record, r_completed, r_scraped>>
    /\ UNCHANGED <<clientVars, convVars, loginVars, autoVars, browserVars, configVars>>

ProviderReturnsAborting(p, out) ==
    /\ r_pc = "querying"
    /\ r_resp[p] = InFlight
    /\ out \in SearchOutcomes(p)
    /\ r_resp' = [r_resp EXCEPT ![p] = out]
    /\ r_completed' = Append(r_completed, p)
    /\ r_pc' = IF IsFailure(out) THEN "fatal" ELSE r_pc
    /\ LET r == Rank(r_order, p)
           m == IF HasResults(out)
                THEN MergeIds(r_ids, r_rank, out.items[1].ids, r)
                ELSE [ids |-> r_ids, rank |-> r_rank]
       IN  /\ r_ids' = m.ids
           /\ r_rank' = m.rank
           /\ r_canon' = CanonStep(r_canon, out, r)
    /\ UNCHANGED <<r_order, r_issued, r_record, r_scraped>>
    /\ UNCHANGED <<clientVars, convVars, loginVars, autoVars, browserVars, configVars>>

\* the search of provider p returns: a failure is absorbed, results are merged
ProviderReturns(p, out) ==
    /\ r_pc = "querying"
    /\ r_resp[p] = InFlight
    /\ out \in SearchOutcomes(p)
    /\ r_resp' = [r_resp EXCEPT ![p] = out]
    /\ r_completed' = Append(r_completed, p)
    /\ LET r == Rank(r_order, p)
           m == IF HasResults(out)
                THEN MergeIds(r_ids, r_rank, out.items[1].ids, r)
                ELSE [ids |-> r_ids, rank |-> r_rank]
       IN  /\ r_ids' = m.ids
           /\ r_rank' = m.rank
           /\ r_canon' = CanonStep(r_canon, out, r)
    /\ UNCHANGED <<r_pc, r_order, r_issued, r_record, r_scraped>>
    /\ UNCHANGED <<clientVars, convVars, loginVars, autoVars, browserVars, configVars>>

\* every enabled provider was called and has returned: the record is produced
EngineFinish ==
    /\ r_pc = "querying"
    /\ r_issued = Len(r_order)
    /\ \A i \in 1..Len(r_order) : HasReturned(r_resp[r_order[i]])
    /\ r_pc' = "done"
    /\ r_record' = Some(ResolvedRecord(r_scraped, r_canon, r_ids))
    /\ UNCHANGED <<r_order, r_issued, r_resp, r_ids, r_rank, r_canon, r_completed, r_scraped>>
    /\ UNCHANGED <<clientVars, convVars, loginVars, autoVars, browserVars, configVars>>

EngineNext ==
    \/ \E order \in PriorityOrders, scraped \in ScrapedTitles : EngineStart(order, scraped)
    \/ EngineCall
    \/ \E p \in Providers : \E out \in SearchOutcomes(p) : ProviderReturns(p, out)
    \/ EngineFinish

(***************************************************************************)
(* Build script: generate_config_if_needed                                 *)
(* The file system holds, per destination directory, the content of        *)
(* config.json as an Option; a content is the parsed JSON document.        *)
(***************************************************************************)
\* let config_content = r#"{...}"#
ConfigContent ==
    [simkl |-> [client_id |-> "YOUR_SIMKL_CLIENT_ID",
                client_secret |-> "YOUR_SIMKL_CLIENT_SECRET"],
     tmdb |-> [access_token |-> "YOUR_TMDB_ACCESS_TOKEN"],
     tvdb |-> [api_key |-> "YOUR_TVDB_API_KEY"],
     imdb |-> [api_key |-> "YOUR_IMDB_API_KEY"],
     mal |-> [client_id |-> "YOUR_MAL_CLIENT_ID",
              client_secret |-> "YOUR_MAL_CLIENT_SECRET"],
     amazon |-> [email |-> "YOUR_AMAZON_EMAIL", password |-> "YOUR_AMAZON_PASSWORD"],
     output |-> [path |-> "./export.csv"]]

\* destination directories of the build
Dirs == {"target/debug", "target/release"}

\* what a user puts into config.json
UserConfigs ==
    {[ConfigContent EXCEPT !.tmdb = [access_token |-> "eyJhbGciOi"]],
     [ConfigContent EXCEPT !.amazon = [email |-> "user@example.co.uk", password |-> "secret"],
                           !.output = [path |-> "./history.csv"]]}

InitConfig ==
    /\ fs_config = [d \in Dirs |-> None]
    /\ g_dir = "target/debug"
    /\ g_before = [d \in Dirs |-> None]
    /\ g_result = "none"

GenerateConfigAlways(file, writeOk) == IF writeOk THEN Some(ConfigContent) ELSE file

\* config.json after the call: if !config_path.exists() { fs::write(..) }
GenerateConfig(file, writeOk) ==
    IF IsNone(file)
    THEN IF writeOk THEN Some(ConfigContent) ELSE file
    ELSE file

\* generate_config_if_needed(dest_path); fs::write(..).expect(..) panics on failure
GenerateConfigIfNeeded(d, writeOk) ==
    /\ writeOk \/ IsNone(fs_config[d])
    /\ g_dir' = d
    /\ g_before' = fs_config
    /\ fs_config' = [fs_config EXCEPT ![d] = GenerateConfig(@, writeOk)]
    /\ g_result' = IF IsNone(fs_config[d]) /\ ~writeOk THEN "panic" ELSE "returned"
    /\ UNCHANGED <<clientVars, convVars, loginVars, autoVars, browserVars, engineVars>>

\* the user writes a config.json of their own
UserWritesConfig(d, c) ==
    /\ fs_config[d] # Some(c)
    /\ fs_config' = [fs_config EXCEPT ![d] = Some(c)]
    /\ g_result' = "none"
    /\ UNCHANGED <<g_dir, g_before>>
    /\ UNCHANGED <<clientVars, convVars, loginVars, autoVars, browserVars, engineVars>>

\* the user removes config.json (or cleans the target directory)
UserRemovesConfig(d) ==
    /\ IsSome(fs_config[d])
    /\ fs_config' = [fs_config EXCEPT ![d] = None]
    /\ g_result' = "none"
    /\ UNCHANGED <<g_dir, g_before>>
    /\ UNCHANGED <<clientVars, convVars, loginVars, autoVars, browserVars, engineVars>>

ConfigNext ==
    \/ \E d \in Dirs, writeOk \in BOOLEAN : GenerateConfigIfNeeded(d, writeOk)
    \/ \E d \in Dirs, c \in UserConfigs : UserWritesConfig(d, c)
    \/ \E d \in Dirs : UserRemovesConfig(d)

(***************************************************************************)
(* Specifications                                                          *)
(***************************************************************************)
\* the metadata clients under concurrent callers
InitRest == InitAuto /\ InitBrowser /\ InitEngine /\ InitConfig

Init == InitClients(Callers, {}) /\ InitConv /\ InitLogin /\ InitRest

Next == ClientNext

Spec == Init /\ [][Next]_vars

\* one caller, with the requests to every provider logged against the clock
MeteredInit == InitClients({1}, Providers) /\ InitConv /\ InitLogin /\ InitRest

MeteredNext == ClientNext \/ Tick

MeteredSpec == MeteredInit /\ [][MeteredNext]_vars

\* the response handlers and conversions on every body of the bounded sets
ConvSpec == Init /\ [][ConvNext]_vars

\* the login procedures of the scraping session
LoginSpec == Init /\ [][LoginNext]_vars

\* manual_login under fair scheduling of its own step: the navigation is
\* taken when it can be; the operator's Enter is an input and may never come
LoginFairSpec ==
    Init /\ [][LoginNext]_vars /\ WF_vars(\E ok \in BOOLEAN, u \in Urls : ManualGoto(ok, u))

\* automated_login, step by step
AutoLoginSpec == Init /\ [][AutoNext]_vars

\* the BrowserController under any sequence of its operations
BrowserSpec == Init /\ [][BrowserNext]_vars

\* the resolution of one title
EngineSpec == Init /\ [][EngineNext]_vars

\* the build script against a file system that users also write
ConfigSpec == Init /\ [][ConfigNext]_vars


(***************************************************************************)
(* Properties                                                              *)
(***************************************************************************)

\* C1: within one TVDB call a 401 causes one reauthentication and one retry;
\* a second 401 ends the call with MetadataError, so a call sends at most two
\* data requests.
C1_SingleRetry ==
    \A c \in DOMAIN pc :
        prov[c] = "TVDB" =>
            /\ nData[c] <= 2
            /\ n401[c] >= 2 => (pc[c] = "done" /\ result[c] = "MetadataError")

\* C2: a call that begins after some call of the instance has authenticated
\* successfully sends no login request, as long as no data request was
\* answered 401.
C2_TokenReused ==
    \A c \in DOMAIN pc :
        (prov[c] = "TVDB" /\ afterAuth[c] /\ ~seen401) => nLogin[c] = 0

\* C3: at most one login exchange of the instance is in flight at any moment.
C3_OneLoginInFlight ==
    Cardinality({c \in DOMAIN pc : prov[c] = "TVDB" /\ pc[c] = "auth_wait"}) <= 1

\* C4: a TVDB call made without a cached token logs in before any data
\* request; a login answered with a non-success status ends the call with
\* AuthError, with no data request, no second login and the token absent.
C4_LoginFirst ==
    \A c \in DOMAIN pc :
        (prov[c] = "TVDB" /\ pc[c] # "idle" /\ IsNone(access_token)) =>
            /\ nLogin[c] >= 1
            /\ pc[c] = "data_wait" => IsSome(this_token[c])
            /\ (n401[c] = 0 /\ loginStatus[c] # 0 /\ loginStatus[c] \notin 200..299) =>
                   /\ pc[c] = "done"
                   /\ result[c] = "AuthError"
                   /\ nData[c] = 0
                   /\ nLogin[c] = 1
                   /\ IsNone(this_token[c])

C4_Witness ==
    \E c \in DOMAIN pc :
        /\ prov[c] = "TVDB"
        /\ pc[c] = "done"
        /\ loginStatus[c] = 500
        /\ n401[c] = 0
        /\ result[c] = "AuthError"

\* C5: a non-success status (for TVDB: other than 401) ends the call with
\* MetadataError and nothing is sent after that response; a success status
\* never gives MetadataError.
C5_NonSuccessIsMetadataError ==
    \A c \in DOMAIN pc :
        status[c] # 0 =>
            /\ (prov[c] \in {"Simkl", "TMDB"} /\ status[c] \notin 200..299) =>
                   /\ pc[c] = "done"
                   /\ result[c] = "MetadataError"
                   /\ nData[c] = 1
                   /\ nLogin[c] = 0
            /\ (prov[c] = "TVDB" /\ status[c] \notin 200..299 /\ status[c] # 401) =>
                   /\ pc[c] = "done"
                   /\ result[c] = "MetadataError"
                   /\ nData[c] = n401[c] + 1
                   /\ nLogin[c] = n401[c] + 1
            /\ status[c] \in 200..299 =>
                   /\ pc[c] = "done"
                   /\ result[c] # "MetadataError"

C5_Witness ==
    \E c \in DOMAIN pc :
        /\ prov[c] = "TVDB"
        /\ pc[c] = "done"
        /\ status[c] = 500
        /\ n401[c] = 1
        /\ nData[c] = 2
        /\ result[c] = "MetadataError"

\* C6: no more than `calls` requests go to one provider within any window of
\* `per_seconds`.
C6_WithinBudget ==
    \A p \in DOMAIN recent : Len(recent[p]) <= Calls

\* C7: the documented example items are converted instead of failing the call:
\* TMDB {id:603, title:"Inception", release_date:"1999-03-30"} and
\* TVDB {id:123, firstAired:null}.
C7_ExamplesConvert ==
    /\ (conv_kind = "tmdb_search" /\ conv_in = [k |-> "obj", items |-> <<TmdbExampleJson>>]) =>
           conv_out = Okay(<<[ids |-> [DefaultIds EXCEPT !.tmdb = Some(<<"6", "0", "3">>)],
                              title |-> StrInception,
                              year |-> Some(<<"1", "9", "9", "9">>),
                              media_type |-> "Movie"]>>)
    /\ (conv_kind = "tvdb_search" /\ conv_in = [k |-> "obj", items |-> <<TvdbExampleJson>>]) =>
           /\ conv_out.tag = "Ok"
           /\ conv_out.items[1].year = None
           /\ conv_out.items[1].ids.tvdb = Some(<<"1", "2", "3">>)

\* C8: the year of a TMDB or TVDB conversion is None or a string of exactly
\* four characters.
C8_YearFourChars ==
    conv_kind \in {"tmdb_search", "tmdb_details", "tvdb_search", "tvdb_details"} =>
        \A i \in 1..Len(conv_out.items) :
            \/ conv_out.items[i].year = None
            \/ Len(conv_out.items[i].year[1]) = 4

\* C9: an absent optional source field (date or year, external identifier)
\* gives None in the result, and identifiers of providers the response does
\* not carry stay None.
Missing(j) == j.k \in {"absent", "null"}

C9_AbsentIsNone ==
    \A i \in 1..Len(conv_out.items) :
        LET j == conv_in.items[i]
            r == conv_out.items[i]
        IN  CASE conv_kind = "tmdb_search" ->
                   /\ (Missing(j.release_date) /\ Missing(j.first_air_date)) => r.year = None
                   /\ r.ids.simkl = None /\ r.ids.tvdb = None
                   /\ r.ids.mal = None /\ r.ids.imdb = None
              [] conv_kind = "tmdb_details" ->
                   /\ (Missing(j.release_date) /\ Missing(j.first_air_date)) => r.year = None
                   /\ Missing(j.external_ids.tvdb_id) => r.ids.tvdb = None
                   /\ r.ids.simkl = None /\ r.ids.mal = None
              [] conv_kind = "tvdb_search" ->
                   /\ Missing(j.firstAired) => r.year = None
                   /\ r.ids.simkl = None /\ r.ids.tmdb = None
                   /\ r.ids.mal = None /\ r.ids.imdb = None
              [] conv_kind = "tvdb_details" ->
                   /\ Missing(j.firstAired) => r.year = None
                   /\ Missing(j.imdbId) => r.ids.imdb = None
                   /\ r.ids.simkl = None /\ r.ids.tmdb = None /\ r.ids.mal = None
              [] conv_kind \in {"simkl_search", "simkl_details"} ->
                   /\ Missing(j.year) => r.year = None
                   /\ Missing(j.ids.imdb) => r.ids.imdb = None
                   /\ Missing(j.ids.tmdb) => r.ids.tmdb = None
                   /\ Missing(j.ids.tvdb) => r.ids.tvdb = None
                   /\ r.ids.mal = None
              [] OTHER -> TRUE

C9_Witness ==
    /\ conv_kind = "tvdb_details"
    /\ conv_out.tag = "Ok"
    /\ Missing(conv_in.items[1].firstAired)
    /\ Missing(conv_in.items[1].imdbId)
    /\ conv_out.items[1].year = None
    /\ conv_out.items[1].ids.imdb = None

\* C10: manual_login returns Ok only for a URL that contains watch-history
\* and whose path matches no sign-in pattern; a sign-in path gives AuthError,
\* and so does a URL without watch-history.
C10_ManualVerification ==
    m_pc = "verified" =>
        /\ m_result = "Ok" => (IsOnWatchHistory(page_url) /\ ~IsOnLoginPage(page_url))
        /\ IsOnLoginPage(page_url) => m_result = "AuthError"
        /\ ~IsOnWatchHistory(page_url) => m_result = "AuthError"

C13_RestartReplacesConnection ==
    (b_op = "restart" /\ b_result = "Ok") =>
        /\ IsSome(b_prev) => b_prev[1] \notin b_open
        /\ IsSome(b_client)
        /\ b_client # b_prev
        /\ b_client[1] = b_next - 1
        /\ b_client[1] \in b_open
        /\ b_client[1] \notin b_authed

C13_Witness ==
    /\ b_op = "restart"
    /\ b_result = "Ok"
    /\ IsSome(b_prev)
    /\ b_prev[1] \notin b_open
    /\ IsSome(b_client)

\* C14: start makes one connection attempt; when it fails start returns
\* BrowserError and the client is what it was (a disconnected controller
\* stays disconnected); a client is held only after a connect succeeded.
C14_StartSingleAttempt ==
    /\ b_op = "start" => b_attempts = 1
    /\ (b_op = "start" /\ b_result = "BrowserError") => b_client = b_prev
    /\ (b_op = "start" /\ b_result = "Ok") => IsSome(b_client)
    /\ IsSome(b_client) => (b_next > 1 /\ b_client[1] < b_next)
    /\ b_next = 1 => IsNone(b_client)

C14_Witness ==
    /\ b_op = "start"
    /\ b_result = "BrowserError"
    /\ b_attempts = 1
    /\ IsNone(b_prev)
    /\ IsNone(b_client)

\* C15: while the responses are merged, an identifier that came from a
\* higher-priority provider is not changed by the response of a
\* lower-priority provider, and a non-absent identifier never becomes absent;
\* merging the same responses again in priority order gives the identifiers
\* of the record.
C15_MergeStep ==
    \A k \in IdKeys :
        /\ IsSome(r_ids[k]) => IsSome(r_ids'[k])
        /\ \A p \in Providers :
               (/\ IsSome(r_ids[k])
                /\ r_resp[p] = InFlight
                /\ r_resp'[p] # InFlight
                /\ Rank(r_order, p) > r_rank[k]) => r_ids'[k] = r_ids[k]

\* C15: (the merge steps as above, over every step of the resolution, and
\* the re-run of the merge on the record that was produced)
C15_MergeByPriority ==
    /\ [][C15_MergeStep]_vars
    /\ [](r_pc = "done" =>
            /\ r_record[1].ids = MergeAll(r_order, r_resp, DefaultIds,
                                          [k \in IdKeys |-> 0], 1)
            /\ r_record[1].ids = MergeAll(r_order, r_resp, r_record[1].ids, r_rank, 1))

C15_Witness ==
    /\ r_pc = "done"
    /\ r_order = <<"Simkl", "TMDB", "TVDB">>
    /\ r_completed = <<"TVDB", "TMDB", "Simkl">>
    /\ r_resp["Simkl"].tag = "Ok" /\ Len(r_resp["Simkl"].items) = 1
    /\ r_resp["Simkl"].items[1].ids.tmdb = Some(StrId12345)
    /\ r_resp["TMDB"].tag = "Ok" /\ Len(r_resp["TMDB"].items) = 1
    /\ r_resp["TMDB"].items[1].ids.tmdb = Some(StrId123)
    /\ r_resp["TMDB"].items[1].ids.tvdb = Some(StrId12345)
    /\ r_resp["TVDB"].tag = "Ok" /\ Len(r_resp["TVDB"].items) = 1
    /\ r_record[1].ids.tmdb = Some(StrId12345)
    /\ r_record[1].ids.tvdb = Some(StrId12345)

\* C16: the canonical title, year and media type of the record are those of
\* the first result of the provider that is earliest in PriorityOrder among
\* the providers that returned a result, in whatever order the calls
\* completed.
C16_CanonicalByPriority ==
    r_pc = "done" =>
        \A i \in 1..Len(r_order) :
            (/\ HasResults(r_resp[r_order[i]])
             /\ \A j \in 1..(i - 1) : ~HasResults(r_resp[r_order[j]])) =>
                LET first == r_resp[r_order[i]].items[1]
                IN  /\ r_record[1].title = first.title
                    /\ r_record[1].year = first.year
                    /\ r_record[1].media_type = first.media_type

C16_Witness ==
    /\ r_pc = "done"
    /\ r_order = <<"TMDB", "Simkl">>
    /\ r_completed = <<"Simkl", "TMDB">>
    /\ HasResults(r_resp["TMDB"])
    /\ HasResults(r_resp["Simkl"])
    /\ r_resp["TMDB"].items[1].title = StrBreakingBad
    /\ r_resp["Simkl"].items[1].title = StrInception
    /\ r_record[1].title = StrBreakingBad

\* C17: a failing provider call does not end the resolution: every provider
\* of the order is still called, a record is produced for the title, and the
\* run is fatal only when no provider is enabled.
C17_FailureAbsorbed ==
    /\ r_pc = "fatal" => r_order = <<>>
    /\ r_pc = "done" =>
           /\ IsSome(r_record)
           /\ r_issued = Len(r_order)
           /\ \A i \in 1..Len(r_order) : HasReturned(r_resp[r_order[i]])
    /\ (r_pc = "querying" /\ r_issued < Len(r_order)) => ENABLED EngineCall

C17_Witness ==
    /\ r_pc = "done"
    /\ r_order = <<"TVDB", "TMDB", "Simkl">>
    /\ r_completed = <<"TVDB", "TMDB", "Simkl">>
    /\ r_resp["TVDB"].tag = "AuthError"
    /\ r_resp["TMDB"].tag = "TransportError"
    /\ HasResults(r_resp["Simkl"])
    /\ r_record[1].title = r_resp["Simkl"].items[1].title

\* C18: after generate_config_if_needed returned, a destination directory
\* that had no config.json holds the default one, a config.json that existed
\* is what it was, no other directory changed, and a second call would leave
\* the file as it is.
C18_ConfigGeneratedOnce ==
    g_result = "returned" =>
        /\ IsNone(g_before[g_dir]) => fs_config[g_dir] = Some(ConfigContent)
        /\ IsSome(g_before[g_dir]) => fs_config[g_dir] = g_before[g_dir]
        /\ \A d \in Dirs \ {g_dir} : fs_config[d] = g_before[d]
        /\ GenerateConfig(fs_config[g_dir], TRUE) = fs_config[g_dir]

C18_Witness ==
    /\ g_result = "returned"
    /\ IsSome(g_before[g_dir])
    /\ g_before[g_dir] # Some(ConfigContent)
    /\ fs_config[g_dir] = g_before[g_dir]
    /\ \E d \in Dirs : fs_config[d] = Some(ConfigContent)

\* C12: the wait of manual_login ends: manual_login eventually returns, also
\* when the operator never confirms.
C12_WaitEnds == <>(m_pc \notin {"start", "waiting"})

\* C19: a TVDB call that was answered 401 holds no token while it
\* authenticates again, and holds none when that authentication failed.
C19_TokenInvalidatedOn401 ==
    \A c \in DOMAIN pc :
        (prov[c] = "TVDB" /\ n401[c] > 0) =>
            /\ pc[c] = "auth_wait" => IsNone(this_token[c])
            /\ (pc[c] = "done" /\ result[c] = "AuthError") => IsNone(this_token[c])

\* the selectors of page_content_checks that name a login-form field, and the
\* account and watch-history markers
LoginFormFields ==
    {PageContentChecks[i] : i \in {j \in 1..Len(PageContentChecks) :
        Contains(PageContentChecks[j], StrEmail) \/ Contains(PageContentChecks[j], StrPassword)}}

LoginMarkers == {PageContentChecks[i] : i \in 1..Len(PageContentChecks)} \ LoginFormFields

\* C20: automated_login returns Ok only for a page with no login-form field
\* and with at least one account or watch-history marker.
C20_LoggedInNeedsMarker ==
    a_result = "Ok" =>
        /\ page_els \cap LoginFormFields = {}
        /\ page_els \cap LoginMarkers # {}

\* a JSON field that carries a non-empty string
Populated(j) == j.k = "str" /\ j.s # <<>>

\* C24: a TMDB result has the media type the response declares ('movie' or
\* 'tv'); when the response declares none, it is Movie if the title field is
\* populated and Tv otherwise, for search items and for details.
C24_TmdbMediaType ==
    \A i \in 1..Len(conv_out.items) :
        LET j == conv_in.items[i]
            r == conv_out.items[i]
            inferred == IF Populated(j.title) THEN "Movie" ELSE "Tv"
        IN  CASE conv_kind = "tmdb_search" ->
                   /\ j.media_type = JStr(StrMovie) => r.media_type = "Movie"
                   /\ j.media_type = JStr(StrTv) => r.media_type = "Tv"
                   /\ Missing(j.media_type) => r.media_type = inferred
              [] conv_kind = "tmdb_details" -> r.media_type = inferred
              [] OTHER -> TRUE

\* C25: the title of a TMDB result is the title field when it is populated,
\* otherwise the name field when that is populated, otherwise the empty
\* string, for search items and for details alike.
C25_TmdbTitle ==
    conv_kind \in {"tmdb_search", "tmdb_details"} =>
        \A i \in 1..Len(conv_out.items) :
            LET j == conv_in.items[i]
            IN  conv_out.items[i].title =
                    IF Populated(j.title) THEN j.title.s
                    ELSE IF Populated(j.name) THEN j.name.s
                    ELSE <<>>

C21_SameUrlCheck ==
    m_pc = "verified" => ((m_result = "Ok") <=> UrlCheck(page_url))

\* str::ends_with
EndsWith(s, suffix) ==
    /\ Len(s) >= Len(suffix)
    /\ SubSeq(s, Len(s) - Len(suffix) + 1, Len(s)) = suffix

\* the regional domain by the suffix of the email's domain
DomainBySuffix(email) ==
    IF EndsWith(email, StrCoUk) THEN StrAmazonCoUk
    ELSE IF EndsWith(email, StrDe) THEN StrAmazonDe
    ELSE IF EndsWith(email, StrIt) THEN StrAmazonIt
    ELSE StrAmazonCom

\* C22: the sign-in page automated_login opens is on amazon.co.uk, amazon.de
\* or amazon.it only when the email's domain ends with .co.uk, .de or .it,
\* and on amazon.com for every other email.
C22_RegionBySuffix ==
    a_pc = "at_signin" => page_url = SigninUrl(DomainBySuffix(a_email))

\* the page interactions of automated_login, in the order of the code
AutoSteps ==
    <<"goto", "fill_email", "click_continue", "fill_password", "click_submit",
      "find_mfa", "current_url", "find_content">>

\* interactions done when automated_login is at a position
StepsDoneAt(position) ==
    CASE position = "start" -> 0
      [] position = "at_signin" -> 1
      [] position = "email_filled" -> 2
      [] position = "continued" -> 3
      [] position = "password_filled" -> 4
      [] position = "submitted" -> 5
      [] position = "mfa_clear" -> 6

\* C23: the page interactions of automated_login are a prefix of navigate,
\* fill email, click continue, fill password, click submit, two-factor check,
\* verification; a step is reached only with every earlier step done and no
\* failure so far; a BrowserError ends the login at the step that failed, and
\* nothing runs after the login has ended.
C23_StepsInOrder ==
    /\ Len(a_trace) <= Len(AutoSteps)
    /\ a_trace = SubSeq(AutoSteps, 1, Len(a_trace))
    /\ a_pc # "done" => (a_result = "none" /\ Len(a_trace) = StepsDoneAt(a_pc))
    /\ a_pc = "done" => (a_result # "none" /\ ~ENABLED AutoNext)
    /\ a_result = "BrowserError" => (a_pc = "done" /\ Len(a_trace) \in (1..5) \cup {7})

C23_Witness ==
    /\ a_pc = "done"
    /\ a_result = "BrowserError"
    /\ a_trace = <<"goto", "fill_email", "click_continue">>

\* C27: after shutdown returned, with Ok or with BrowserError, the controller
\* holds no client; on a controller without client it returns Ok and makes no
\* driver call; BrowserError comes from the one close that failed.
C27_ShutdownDisconnects ==
    b_op = "shutdown" =>
        /\ IsNone(b_client)
        /\ b_result \in {"Ok", "BrowserError"}
        /\ IsNone(b_prev) => (b_result = "Ok" /\ b_calls = <<>>)
        /\ IsSome(b_prev) => b_calls = <<DriverCall("close", b_result = "Ok")>>

C27_Witness ==
    /\ b_op = "shutdown"
    /\ b_result = "BrowserError"
    /\ IsSome(b_prev)
    /\ IsNone(b_client)

\* C29: at most one connection opened by the controller is open, and every
\* open connection is the one the controller holds.
C29_NoLeakedConnection ==
    /\ Cardinality(b_open) <= 1
    /\ \A c \in b_open : b_client = Some(c)

\* C30: when the close fails during restart, restart returns BrowserError
\* with no connection attempt and the controller holds no client.
C30_RestartCloseFailure ==
    (b_op = "restart" /\ b_calls # <<>> /\ b_calls[1] = DriverCall("close", FALSE)) =>
        /\ b_result = "BrowserError"
        /\ b_calls = <<DriverCall("close", FALSE)>>
        /\ b_attempts = 0
        /\ IsNone(b_client)
        /\ IsSome(b_prev)

C30_Witness ==
    /\ b_op = "restart"
    /\ b_result = "BrowserError"
    /\ b_calls = <<DriverCall("close", FALSE)>>
    /\ IsSome(b_prev)
    /\ b_prev[1] \in b_open
    /\ IsNone(b_client)

\* C28: while a TVDB data request is out, on the first attempt or after a
\* 401, the client that sent it holds a token, so the Authorization header
\* was built from a present token.
C28_DataRequestHasToken ==
    \A c \in DOMAIN pc :
        (prov[c] = "TVDB" /\ pc[c] = "data_wait") =>
            /\ IsSome(this_token[c])
            /\ this_token[c][1] \in Tokens
            /\ nLogin[c] >= 1
            /\ loginStatus[c] \in 200..299

C28_Witness ==
    \E c \in DOMAIN pc :
        /\ prov[c] = "TVDB"
        /\ pc[c] = "data_wait"
        /\ n401[c] = 1
        /\ nData[c] = 2
        /\ IsSome(this_token[c])

====
